---- MODULE Spec2Model ----
(***************************************************************************)
(* A model of the Dify streaming chat adapter of src/llm.py: the adapter   *)
(* LLM (its cached aiohttp session, chat() and close()) and the stream     *)
(* LLMStream (its _run coroutine and _parse_event).                        *)
(*                                                                         *)
(* Python values that come out of json.loads are modelled as tagged        *)
(* records: [t |-> "null"], [t |-> "str", s |-> ...], [t |-> "num",        *)
(* n |-> ...], [t |-> "arr"], [t |-> "obj", o |-> f] where f is a function *)
(* from the keys of the object to its values.  Token counts on the wire    *)
(* are JSON integers.                                                      *)
(*                                                                         *)
(* A body line is the sequence of its tokens: whitespace, a literal piece  *)
(* of text, a byte sequence that is not UTF-8, or the text of one JSON     *)
(* value.                                                                  *)
(***************************************************************************)
EXTENDS Integers, Sequences, FiniteSets, TLC

(***************************************************************************)
(* Bounds of the model.                                                    *)
(***************************************************************************)
\* body lines read over all streams of one behaviour
MaxLines == 3
\* chat() calls of one behaviour
MaxChats == 3
\* close() calls of one behaviour
MaxCloses == 2
\* invocations of _run on one stream (the first one and the host's retries)
MaxAttempts == 2
\* streams of one adapter that run side by side
MaxStreams == 2
\* body lines read over all of them
MaxAdapterLines == 2

(***************************************************************************)
(* Python values.                                                          *)
(***************************************************************************)
PyNone == [t |-> "null"]
Str(s) == [t |-> "str", s |-> s]
Num(n) == [t |-> "num", n |-> n]
Arr == [t |-> "arr"]
Obj(f) == [t |-> "obj", o |-> f]
EmptyObj == Obj(<<>>)

\* bool(v) of a decoded JSON value: "", 0, None, [] and {} are falsy
Truthy(v) ==
    CASE v.t = "null" -> FALSE
      [] v.t = "str" -> v.s # ""
      [] v.t = "num" -> v.n # 0
      [] v.t = "arr" -> FALSE
      [] v.t = "obj" -> DOMAIN v.o # {}

\* dict.get(key, default)
DictGet(d, key, default) == IF key \in DOMAIN d.o THEN d.o[key] ELSE default

(***************************************************************************)
(* Body lines.                                                             *)
(***************************************************************************)
Ws == [k |-> "ws"]
Lit(s) == [k |-> "lit", s |-> s]
BadUtf8 == [k |-> "bad8"]
JsonText(v) == [k |-> "json", v |-> v]
Prefix == Lit("data: ")

\* bytes.decode('utf-8'): raises UnicodeDecodeError on a byte sequence that is not UTF-8
DecodeRaises(raw) == \E i \in 1..Len(raw) : raw[i].k = "bad8"

RECURSIVE LStrip(_)
LStrip(text) ==
    IF text # <<>> /\ Head(text).k = "ws" THEN LStrip(Tail(text)) ELSE text

RECURSIVE RStrip(_)
RStrip(text) ==
    IF text # <<>> /\ text[Len(text)].k = "ws"
    THEN RStrip(SubSeq(text, 1, Len(text) - 1))
    ELSE text

\* str.strip()
Strip(text) == RStrip(LStrip(text))

\* str.startswith('data: ')
StartsWithData(text) == text # <<>> /\ Head(text) = Prefix

\* json.loads raises JSONDecodeError unless the text is one JSON value
\* (whitespace around it is allowed)
JsonRaises(text) ==
    LET t == Strip(text) IN ~(Len(t) = 1 /\ t[1].k = "json")

JsonLoads(text) == Strip(text)[1].v

(***************************************************************************)
(* Chunks handed to the consumer.                                          *)
(***************************************************************************)
\* llm.ChoiceDelta(content=..., role=...) inside llm.Choice(delta=...)
Choice(content, role) == [delta |-> [content |-> content, role |-> role]]

\* llm.CompletionUsage
CompletionUsage(completion, prompt, total) ==
    [completion_tokens |-> completion, prompt_tokens |-> prompt, total_tokens |-> total]

\* llm.ChatChunk(request_id=..., choices=..., usage=...); choices defaults to [],
\* usage to None
ChatChunk(request_id, choices, usage) ==
    [request_id |-> request_id, choices |-> choices, usage |-> usage]

(***************************************************************************)
(* LLMStream._parse_event.  The result names the exception the call raised *)
(* ("" when it returned), the chunk it returned (PyNone for None) and the  *)
(* usage counters it left.                                                 *)
(***************************************************************************)
ParseResult(raised, chunk, input_tokens, output_tokens) ==
    [raised |-> raised, chunk |-> chunk,
     input_tokens |-> input_tokens, output_tokens |-> output_tokens]

\* "usage" in event["metadata"] raises TypeError when the metadata is no container
UsageInRaises(md) == md.t \in {"null", "num"}

\* "usage" in event["metadata"]
UsageIn(md) ==
    CASE md.t = "obj" -> "usage" \in DOMAIN md.o
      [] md.t = "str" -> md.s = "usage"
      [] OTHER -> FALSE

\* usage.get("prompt_tokens", 0) and usage.get("completion_tokens", 0)
UsageGet(usage, key) == IF key \in DOMAIN usage.o THEN usage.o[key].n ELSE 0

\* ParseMessageEnd with += in the place of =: the counters add up
ParseMessageEndAccumulating(self, event) ==
    IF "metadata" \notin DOMAIN event.o
    THEN ParseResult("", PyNone, self.input_tokens, self.output_tokens)
    ELSE LET md == event.o["metadata"] IN
         IF UsageInRaises(md)
         THEN ParseResult("TypeError", PyNone, self.input_tokens, self.output_tokens)
         ELSE IF ~UsageIn(md)
         THEN ParseResult("", PyNone, self.input_tokens, self.output_tokens)
         ELSE IF md.t # "obj"
         THEN ParseResult("TypeError", PyNone, self.input_tokens, self.output_tokens)
         ELSE IF md.o["usage"].t # "obj"
         THEN ParseResult("AttributeError", PyNone,
                          self.input_tokens, self.output_tokens)
         ELSE LET usage == md.o["usage"] IN
              ParseResult("", PyNone,
                          self.input_tokens + UsageGet(usage, "prompt_tokens"),
                          self.output_tokens + UsageGet(usage, "completion_tokens"))

\* the branch event_type == "message_end"
ParseMessageEnd(self, event) ==
    IF "metadata" \notin DOMAIN event.o
    THEN ParseResult("", PyNone, self.input_tokens, self.output_tokens)
    ELSE LET md == event.o["metadata"] IN
         IF UsageInRaises(md)
         THEN ParseResult("TypeError", PyNone, self.input_tokens, self.output_tokens)
         ELSE IF ~UsageIn(md)
         THEN ParseResult("", PyNone, self.input_tokens, self.output_tokens)
         ELSE IF md.t # "obj"
         \* event["metadata"]["usage"] on a str
         THEN ParseResult("TypeError", PyNone, self.input_tokens, self.output_tokens)
         ELSE IF md.o["usage"].t # "obj"
         \* usage.get on a value that is no dict
         THEN ParseResult("AttributeError", PyNone,
                          self.input_tokens, self.output_tokens)
         ELSE LET usage == md.o["usage"] IN
              ParseResult("", PyNone,
                          UsageGet(usage, "prompt_tokens"),
                          UsageGet(usage, "completion_tokens"))

\* ParseAgentMessage without the test of the answer
ParseAgentMessageUnchecked(self, event) ==
    LET answer == DictGet(event, "answer", Str("")) IN
    ParseResult("",
                ChatChunk(DictGet(event, "message_id", Str("")),
                          <<Choice(answer, "assistant")>>,
                          PyNone),
                self.input_tokens, self.output_tokens)

\* the branch event_type == "agent_message"
ParseAgentMessage(self, event) ==
    LET answer == DictGet(event, "answer", Str("")) IN
    IF ~Truthy(answer)
    THEN ParseResult("", PyNone, self.input_tokens, self.output_tokens)
    ELSE ParseResult("",
                     ChatChunk(DictGet(event, "message_id", Str("")),
                               <<Choice(answer, "assistant")>>,
                               PyNone),
                     self.input_tokens, self.output_tokens)

ParseEvent(self, event) ==
    IF event.t # "obj"
    \* event.get raises AttributeError on a value that is no dict
    THEN ParseResult("AttributeError", PyNone, self.input_tokens, self.output_tokens)
    ELSE LET event_type == DictGet(event, "event", PyNone) IN
         IF event_type = Str("message_end") THEN ParseMessageEnd(self, event)
         ELSE IF event_type = Str("agent_message") THEN ParseAgentMessage(self, event)
         ELSE ParseResult("", PyNone, self.input_tokens, self.output_tokens)

(***************************************************************************)
(* The body of the loop of LLMStream._run for one line.  The result names  *)
(* the exception raised inside the guarded block ("" when none was), says  *)
(* whether it escaped the block, and gives the chunk sent on the channel   *)
(* (PyNone when none was), the counters, and the flag retryable.           *)
(***************************************************************************)
LineResult(exc, escapes, chunk, input_tokens, output_tokens, retryable) ==
    [exc |-> exc, escapes |-> escapes, chunk |-> chunk,
     input_tokens |-> input_tokens, output_tokens |-> output_tokens,
     retryable |-> retryable]

\* except json.JSONDecodeError in the place of except Exception
CatchesJsonOnly(exc) == exc = "JSONDecodeError"

\* except Exception: every exception of the block is an Exception
Catches(exc) == TRUE

\* if chat_chunk is not None: the chunk is sent
ChunkSent(chat_chunk) == chat_chunk # PyNone

\* retryable = False one level out, run for every line with the prefix
RetryableAfterDedent(retryable, sent) == FALSE

\* retryable = False, after a chunk was sent
RetryableAfter(retryable, sent) == IF sent THEN FALSE ELSE retryable

ProcessLine(self, raw) ==
    LET skip(exc) ==
            LineResult(exc, exc # "" /\ ~Catches(exc), PyNone,
                       self.input_tokens, self.output_tokens, self.retryable)
    IN
    IF raw = <<>> THEN skip("")
    ELSE IF DecodeRaises(raw) THEN skip("UnicodeDecodeError")
    ELSE LET line == Strip(raw) IN
         IF ~StartsWithData(line) THEN skip("")
         ELSE IF JsonRaises(Tail(line)) THEN skip("JSONDecodeError")
         ELSE LET r == ParseEvent(self, JsonLoads(Tail(line))) IN
              LineResult(r.raised, r.raised # "" /\ ~Catches(r.raised),
                         IF ChunkSent(r.chunk) THEN r.chunk ELSE PyNone,
                         r.input_tokens, r.output_tokens,
                         RetryableAfter(self.retryable, ChunkSent(r.chunk)))

(***************************************************************************)
(* The state.                                                              *)
(***************************************************************************)
VARIABLES
    opts,        \* LLM._opts
    session,     \* LLM._session: NoSession for None, else the session's number
    sessions,    \* every aiohttp.ClientSession made so far, by number
    closeCalls,  \* the calls of LLM.close() made so far
    streams,     \* every LLMStream made so far, by number
    lastChat,    \* the most recent call of LLM.chat() and how it ended
    parseArgs,   \* a call of _parse_event on its own: the stream's counters and the event
    parseRet     \* and what that call returned

vars == <<opts, session, sessions, closeCalls, streams, lastChat, parseArgs, parseRet>>

NoSession == 0

(***************************************************************************)
(* LLM.chat.                                                               *)
(***************************************************************************)
ChatMessage(role, content) == [role |-> role, content |-> content]

\* next((msg for msg in reversed(chat_ctx.messages) if msg.role == "user"), None)
RECURSIVE LastUserMessage(_)
LastUserMessage(messages) ==
    IF messages = <<>> THEN PyNone
    ELSE IF messages[Len(messages)].role = "user" THEN messages[Len(messages)]
    ELSE LastUserMessage(SubSeq(messages, 1, Len(messages) - 1))

\* EffectiveTemperature as "temperature or self._opts.temperature" would give it
EffectiveTemperatureOr(o, temperature) ==
    IF Truthy(temperature) THEN temperature ELSE o.temperature

\* if temperature is None: temperature = self._opts.temperature
EffectiveTemperature(o, temperature) ==
    IF temperature = PyNone THEN o.temperature ELSE temperature

\* the request payload
Payload(o, last_message, temperature) ==
    LET base == [inputs |-> <<>>,
                 query |-> last_message.content,
                 response_mode |-> "streaming",
                 conversation_id |->
                     IF Truthy(o.conversation_id) THEN o.conversation_id ELSE Str(""),
                 user |-> "user"]
    IN IF temperature # PyNone THEN ("temperature" :> temperature) @@ base ELSE base

Headers(o) ==
    [Authorization |-> <<"Bearer ", o.api_key>>, ContentType |-> "application/json"]

\* self._session.post(url, headers=..., json=...): a request not yet awaited
Post(o, sess, sess_state, payload) ==
    [session |-> sess, session_state |-> sess_state,
     url |-> <<o.api_base, "/v1/chat-messages">>,
     headers |-> Headers(o), json |-> payload, awaited |-> FALSE]

\* LLMStream.__init__
NewStream(dify_stream) ==
    [awaitable_dify_stream |-> dify_stream,
     dify_stream |-> PyNone,
     request_id |-> Str(""),
     input_tokens |-> 0,
     output_tokens |-> 0,
     retryable |-> TRUE,
     pc |-> "NOT_STARTED",
     chan |-> <<>>,
     raised |-> PyNone,
     hist |-> <<>>,
     body |-> "none",
     attempts |-> 0]

\* What one call of chat() does: the exception it raises ("" when it returns),
\* the session it leaves in self._session, whether it made that session, and
\* the stream it returns (PyNone when it raised).
ChatOutcome(raised, sess, created, stream) ==
    [raised |-> raised, session |-> sess, created |-> created, stream |-> stream]

\* ChatResult with the session made before the chat context is looked at
ChatResultEager(o, sess, all_sessions, chat_ctx, temperature) ==
    LET temp == EffectiveTemperature(o, temperature)
        last_message == LastUserMessage(chat_ctx)
        created == sess = NoSession
        use == IF created THEN Len(all_sessions) + 1 ELSE sess
        state == IF created THEN "open" ELSE all_sessions[sess].state
    IN
    IF last_message = PyNone
    THEN ChatOutcome("ValueError", use, created, PyNone)
    ELSE ChatOutcome("", use, created,
                     NewStream(Post(o, use, state, Payload(o, last_message, temp))))

ChatResult(o, sess, all_sessions, chat_ctx, temperature) ==
    LET temp == EffectiveTemperature(o, temperature)
        last_message == LastUserMessage(chat_ctx)
    IN
    IF last_message = PyNone
    THEN ChatOutcome("ValueError", sess, FALSE, PyNone)
    ELSE LET created == sess = NoSession
             use == IF created THEN Len(all_sessions) + 1 ELSE sess
             state == IF created THEN "open" ELSE all_sessions[sess].state
         IN ChatOutcome("", use, created,
                        NewStream(Post(o, use, state,
                                       Payload(o, last_message, temp))))

\* aiohttp.ClientSession()
NewSession == [state |-> "open", closes |-> 0]

Chat(chat_ctx, temperature) ==
    /\ lastChat.n < MaxChats
    /\ LET r == ChatResult(opts, session, sessions, chat_ctx, temperature) IN
       /\ session' = r.session
       /\ sessions' = IF r.created THEN Append(sessions, NewSession) ELSE sessions
       /\ streams' = IF r.stream # PyNone THEN Append(streams, r.stream) ELSE streams
       /\ lastChat' = [n |-> lastChat.n + 1, chat_ctx |-> chat_ctx,
                       temperature |-> temperature, raised |-> r.raised,
                       created |-> r.created, posted |-> r.stream # PyNone,
                       session_before |-> session]
    /\ UNCHANGED <<opts, closeCalls, parseArgs, parseRet>>

(***************************************************************************)
(* LLM.close.  The call suspends in await self._session.close() and sets   *)
(* self._session to None when it resumes.                                  *)
(***************************************************************************)
CloseBegin ==
    /\ Len(closeCalls) < MaxCloses
    /\ IF session = NoSession
       THEN /\ closeCalls' = Append(closeCalls, [session |-> NoSession, pc |-> "done"])
            /\ UNCHANGED sessions
       ELSE /\ closeCalls' = Append(closeCalls, [session |-> session, pc |-> "await"])
            /\ sessions' =
                   [sessions EXCEPT ![session] =
                       [state |-> IF @.state = "open" THEN "closing" ELSE @.state,
                        closes |-> @.closes + 1]]
    /\ UNCHANGED <<opts, session, streams, lastChat, parseArgs, parseRet>>

\* CloseResume with self._session left as it is when the call resumes
CloseResumeKeeps(i) ==
    /\ closeCalls[i].pc = "await"
    /\ closeCalls' = [closeCalls EXCEPT ![i].pc = "done"]
    /\ sessions' = [sessions EXCEPT ![closeCalls[i].session].state = "closed"]
    /\ UNCHANGED <<opts, session, streams, lastChat, parseArgs, parseRet>>

CloseResume(i) ==
    /\ closeCalls[i].pc = "await"
    /\ closeCalls' = [closeCalls EXCEPT ![i].pc = "done"]
    /\ sessions' = [sessions EXCEPT ![closeCalls[i].session].state = "closed"]
    /\ session' = NoSession
    /\ UNCHANGED <<opts, streams, lastChat, parseArgs, parseRet>>

(***************************************************************************)
(* LLMStream._run.  A step runs from one await of the coroutine to the     *)
(* next.  pc is the place the coroutine is suspended at: NOT_STARTED,      *)
(* AWAITING_RESPONSE (line 165), READING_ERROR_BODY (line 169), STREAMING  *)
(* (line 176), and COMPLETED, FAILED or CANCELLED once it has returned or  *)
(* raised.                                                                 *)
(***************************************************************************)
APIStatusError(error_text, status_code) ==
    [type |-> "APIStatusError", message |-> <<"Dify API error: ", error_text>>,
     status_code |-> status_code, body |-> error_text]

APIConnectionError(retryable, cause) ==
    [type |-> "APIConnectionError", retryable |-> retryable, cause |-> cause]

ClientError == [type |-> "ClientError"]
RuntimeError == [type |-> "RuntimeError"]

\* Surface without the clause "except Exception": only aiohttp.ClientError is
\* wrapped, any other exception leaves _run as it is and the host does not retry
SurfaceClientErrorOnly(retryable, e) ==
    IF e.type = "ClientError" THEN APIConnectionError(retryable, e)
    ELSE [type |-> e.type, retryable |-> FALSE, cause |-> PyNone]

\* the two except clauses of _run: what the caller of the stream gets for e
Surface(retryable, e) == APIConnectionError(retryable, e)

\* the response the awaited request gives
Response(status) == [t |-> "resp", status |-> status, released |-> FALSE, text |-> PyNone]

\* __aexit__ of async with self._dify_stream
Release(response) == [response EXCEPT !.released = TRUE]

\* FinalChunk with the two counters in each other's place
FinalChunkSwapped(st) ==
    ChatChunk(st.request_id, <<>>,
              CompletionUsage(st.input_tokens, st.output_tokens,
                              st.input_tokens + st.output_tokens))

\* FinalChunk with an empty assistant delta next to the usage
FinalChunkWithDelta(st) ==
    ChatChunk(st.request_id, <<Choice(Str(""), "assistant")>>,
              CompletionUsage(st.output_tokens, st.input_tokens,
                              st.input_tokens + st.output_tokens))

\* the final chunk of _run
FinalChunk(st) ==
    ChatChunk(st.request_id, <<>>,
              CompletionUsage(st.output_tokens, st.input_tokens,
                              st.input_tokens + st.output_tokens))

\* Fail with the final chunk sent on the way out, as a finally clause would
FailWithFinal(st, e) ==
    [st EXCEPT !.pc = "FAILED",
               !.raised = Surface(st.retryable, e),
               !.chan = Append(@, FinalChunk(st)),
               !.dify_stream = IF @ = PyNone THEN @ ELSE Release(@)]

\* _run raises e out of the async with block (when it was entered) and out of try
Fail(st, e) ==
    [st EXCEPT !.pc = "FAILED",
               !.raised = Surface(st.retryable, e),
               !.dify_stream = IF @ = PyNone THEN @ ELSE Release(@)]

\* async with self._dify_stream as response: if response.status != 200
Enter(st) ==
    [st EXCEPT !.pc = IF st.dify_stream.status # 200
                      THEN "READING_ERROR_BODY" ELSE "STREAMING"]

SessionOf(st) == sessions[st.awaitable_dify_stream.session]

RECURSIVE TotalRead(_)
TotalRead(ss) == IF ss = <<>> THEN 0 ELSE Len(Head(ss).hist) + TotalRead(Tail(ss))

Others == <<opts, session, sessions, closeCalls, lastChat, parseArgs, parseRet>>

\* RunStart with a retry that posts the request anew and starts from nothing
RunStartFresh(i) ==
    LET st == streams[i]
        begun == [st EXCEPT !.retryable = TRUE, !.attempts = @ + 1, !.raised = PyNone,
                            !.dify_stream = PyNone, !.body = "none",
                            !.awaitable_dify_stream.awaited = TRUE]
    IN
    /\ \/ st.pc = "NOT_STARTED"
       \/ st.pc = "FAILED" /\ st.raised.retryable /\ st.attempts < MaxAttempts
    /\ streams' = [streams EXCEPT ![i] = [begun EXCEPT !.pc = "AWAITING_RESPONSE"]]
    /\ UNCHANGED Others

\* _run is invoked: by the host's task for the first time, and again after a
\* failure that it marked retryable
RunStart(i) ==
    LET st == streams[i]
        begun == [st EXCEPT !.retryable = TRUE, !.attempts = @ + 1, !.raised = PyNone]
    IN
    /\ \/ st.pc = "NOT_STARTED"
       \/ st.pc = "FAILED" /\ st.raised.retryable /\ st.attempts < MaxAttempts
    /\ streams' =
           [streams EXCEPT ![i] =
               IF st.dify_stream = PyNone
               THEN IF st.awaitable_dify_stream.awaited
                    \* a coroutine that was awaited cannot be awaited again
                    THEN Fail(begun, RuntimeError)
                    ELSE [begun EXCEPT !.pc = "AWAITING_RESPONSE",
                                       !.awaitable_dify_stream.awaited = TRUE]
               ELSE Enter(begun)]
    /\ UNCHANGED Others

\* self._dify_stream = await self._awaitable_dify_stream
ResponseArrives(i, status) ==
    LET st == streams[i] IN
    /\ st.pc = "AWAITING_RESPONSE"
    /\ SessionOf(st).state = "open"
    /\ streams' = [streams EXCEPT ![i] =
                      Enter([st EXCEPT !.dify_stream = Response(status),
                                       !.body = "open"])]
    /\ UNCHANGED Others

\* the request fails: the session is closed, or the network fails
RequestFails(i) ==
    LET st == streams[i] IN
    /\ st.pc = "AWAITING_RESPONSE"
    /\ streams' = [streams EXCEPT ![i] = Fail(st, ClientError)]
    /\ UNCHANGED Others

\* error_text = await response.text(), then raise APIStatusError
ErrorBody(i, error_text) ==
    LET st == streams[i] IN
    /\ st.pc = "READING_ERROR_BODY"
    /\ IF st.dify_stream.text # PyNone
       THEN error_text = st.dify_stream.text
       ELSE ~st.dify_stream.released /\ SessionOf(st).state = "open"
    /\ streams' =
           [streams EXCEPT ![i] =
               Fail([st EXCEPT !.dify_stream.text = error_text, !.body = "eof"],
                    APIStatusError(error_text, st.dify_stream.status))]
    /\ UNCHANGED Others

\* await response.text() raises
ErrorBodyFails(i) ==
    LET st == streams[i] IN
    /\ st.pc = "READING_ERROR_BODY"
    /\ st.dify_stream.text = PyNone
    /\ streams' = [streams EXCEPT ![i] = Fail([st EXCEPT !.body = "error"], ClientError)]
    /\ UNCHANGED Others

\* ReadLine with the two counters kept by the class, one pair for all streams
ReadLineSharedCounters(i, raw) ==
    LET st == streams[i]
        r == ProcessLine(st, raw)
        read == [st EXCEPT !.hist = Append(@, raw),
                           !.input_tokens = r.input_tokens,
                           !.output_tokens = r.output_tokens,
                           !.chan = IF r.chunk # PyNone THEN Append(@, r.chunk) ELSE @,
                           !.retryable = r.retryable]
    IN
    /\ st.pc = "STREAMING"
    /\ ~st.dify_stream.released
    /\ SessionOf(st).state = "open"
    /\ TotalRead(streams) < MaxLines
    /\ streams' = [k \in DOMAIN streams |->
                      IF k = i THEN IF r.escapes THEN Fail(read, [type |-> r.exc]) ELSE read
                      ELSE [streams[k] EXCEPT !.input_tokens = r.input_tokens,
                                              !.output_tokens = r.output_tokens]]
    /\ UNCHANGED Others

\* async for line in response.content: one line, and the body of the loop
ReadLine(i, raw) ==
    LET st == streams[i]
        r == ProcessLine(st, raw)
        read == [st EXCEPT !.hist = Append(@, raw),
                           !.input_tokens = r.input_tokens,
                           !.output_tokens = r.output_tokens,
                           !.chan = IF r.chunk # PyNone THEN Append(@, r.chunk) ELSE @,
                           !.retryable = r.retryable]
    IN
    /\ st.pc = "STREAMING"
    /\ ~st.dify_stream.released
    /\ SessionOf(st).state = "open"
    /\ TotalRead(streams) < MaxLines
    /\ streams' = [streams EXCEPT ![i] =
                      IF r.escapes THEN Fail(read, [type |-> r.exc]) ELSE read]
    /\ UNCHANGED Others

\* the line source is exhausted: the final chunk is sent and _run returns
ReadEof(i) ==
    LET st == streams[i] IN
    /\ st.pc = "STREAMING"
    /\ ~st.dify_stream.released
    /\ SessionOf(st).state = "open"
    /\ streams' = [streams EXCEPT ![i] =
                      [st EXCEPT !.chan = Append(@, FinalChunk(st)),
                                 !.body = "eof",
                                 !.dify_stream = Release(@),
                                 !.pc = "COMPLETED"]]
    /\ UNCHANGED Others

\* reading the body raises: the connection broke, or the response was released
ReadError(i) ==
    LET st == streams[i] IN
    /\ st.pc = "STREAMING"
    /\ streams' = [streams EXCEPT ![i] = Fail([st EXCEPT !.body = "error"], ClientError)]
    /\ UNCHANGED Others

\* Abandon with the response left as it is, as without the async with block
AbandonLeaks(i) ==
    LET st == streams[i] IN
    /\ st.pc \in {"AWAITING_RESPONSE", "READING_ERROR_BODY", "STREAMING"}
    /\ streams' = [streams EXCEPT ![i] = [st EXCEPT !.pc = "CANCELLED"]]
    /\ UNCHANGED Others

\* the consumer abandons the stream: the task of _run is cancelled at its await
Abandon(i) ==
    LET st == streams[i] IN
    /\ st.pc \in {"AWAITING_RESPONSE", "READING_ERROR_BODY", "STREAMING"}
    /\ streams' = [streams EXCEPT ![i] =
                      [st EXCEPT !.pc = "CANCELLED",
                                 !.dify_stream = IF @ = PyNone THEN @ ELSE Release(@)]]
    /\ UNCHANGED Others

(***************************************************************************)
(* The inputs.                                                             *)
(***************************************************************************)
EventLine(f) == <<Prefix, JsonText(Obj(f)), Ws>>

Usage(prompt, completion) ==
    Obj([usage |-> Obj([prompt_tokens |-> Num(prompt),
                        completion_tokens |-> Num(completion)])])

BlankLine == <<Ws>>
CommentLine == <<Lit("event: ping"), Ws>>
BadUtf8Line == <<BadUtf8, Ws>>
BadJsonLine == <<Prefix, Lit("{oops"), Ws>>
ArrayLine == <<Prefix, JsonText(Arr), Ws>>
HiLine == EventLine([event |-> Str("agent_message"), answer |-> Str("Hi"),
                     message_id |-> Str("m1")])
HelloLine == EventLine([event |-> Str("agent_message"), answer |-> Str("Hello"),
                        message_id |-> Str("m2")])
HeartbeatLine == EventLine([event |-> Str("agent_message"), answer |-> Str(""),
                            message_id |-> Str("m1")])
IndentedLine == <<Ws>> \o EventLine([event |-> Str("agent_message"),
                                     answer |-> Str("Hi")])
End10Line == EventLine([event |-> Str("message_end"), metadata |-> Usage(10, 5)])
End20Line == EventLine([event |-> Str("message_end"), metadata |-> Usage(20, 8)])
EndPartialLine ==
    EventLine([event |-> Str("message_end"),
               metadata |-> Obj([usage |-> Obj([completion_tokens |-> Num(5)])])])
EndBareLine == EventLine([event |-> Str("message_end")])
EndNullLine == EventLine([event |-> Str("message_end"), metadata |-> PyNone])
PingLine == EventLine([event |-> Str("ping"), answer |-> Str("Hi")])

\* the body lines of a stream checked on its own
StreamLines ==
    {BlankLine, CommentLine, BadUtf8Line, BadJsonLine, ArrayLine, HiLine, HelloLine,
     HeartbeatLine, IndentedLine, End10Line, End20Line, EndPartialLine, EndBareLine,
     EndNullLine, PingLine}

\* the body lines of the streams of an adapter with several streams
AdapterLines == {HiLine, End10Line, EndBareLine, BadJsonLine, PingLine}

Statuses == {200, 401}
ErrorTexts == {Str("{\"error\":\"bad key\"}")}

ChatContexts ==
    {<<>>,
     <<ChatMessage("system", "be brief"), ChatMessage("assistant", "hello")>>,
     <<ChatMessage("user", "a"), ChatMessage("user", "c"), ChatMessage("assistant", "b")>>}

Temperatures == {PyNone, Num(0)}

\* LLM.__init__ with an API key
Options(temperature) ==
    [api_key |-> "key", api_base |-> "https://api.dify.ai",
     temperature |-> temperature, conversation_id |-> PyNone]

(***************************************************************************)
(* The adapter: calls of chat() and close() in any order, a call of        *)
(* close() suspended in its await while others run.  _run writes nothing   *)
(* but its own stream, so the streams chat() returns are left unstarted    *)
(* here; SpecStream runs one.                                              *)
(***************************************************************************)
Init ==
    /\ opts \in {Options(t) : t \in {PyNone, Num(5)}}
    /\ session = NoSession
    /\ sessions = <<>>
    /\ closeCalls = <<>>
    /\ streams = <<>>
    /\ lastChat = [n |-> 0, chat_ctx |-> <<>>, temperature |-> PyNone, raised |-> "",
                   created |-> FALSE, posted |-> FALSE, session_before |-> NoSession]
    /\ parseArgs = PyNone
    /\ parseRet = PyNone

Next ==
    \/ \E c \in ChatContexts, t \in Temperatures : Chat(c, t)
    \/ CloseBegin
    \/ \E i \in DOMAIN closeCalls : CloseResume(i)

Spec == Init /\ [][Next]_vars

(***************************************************************************)
(* One stream on its own, over every kind of body line.                    *)
(***************************************************************************)
InitStream ==
    /\ Init
    /\ opts = Options(PyNone)

NextStream ==
    \/ /\ lastChat.n = 0
       /\ Chat(<<ChatMessage("user", "a")>>, PyNone)
    \/ \E i \in DOMAIN streams : RunStart(i)
    \/ \E i \in DOMAIN streams, status \in Statuses : ResponseArrives(i, status)
    \/ \E i \in DOMAIN streams : RequestFails(i)
    \/ \E i \in DOMAIN streams, text \in ErrorTexts : ErrorBody(i, text)
    \/ \E i \in DOMAIN streams : ErrorBodyFails(i)
    \/ \E i \in DOMAIN streams, raw \in StreamLines : ReadLine(i, raw)
    \/ \E i \in DOMAIN streams : ReadEof(i)
    \/ \E i \in DOMAIN streams : ReadError(i)
    \/ \E i \in DOMAIN streams : Abandon(i)

SpecStream == InitStream /\ [][NextStream]_vars

(***************************************************************************)
(* Several streams of one adapter, each run by its own task, over the body *)
(* of a 200 response.                                                      *)
(***************************************************************************)
NextAdapter ==
    \/ /\ Len(streams) < MaxStreams
       /\ Chat(<<ChatMessage("user", "a")>>, PyNone)
    \/ \E i \in DOMAIN streams : RunStart(i)
    \/ \E i \in DOMAIN streams : ResponseArrives(i, 200)
    \/ \E i \in DOMAIN streams : RequestFails(i)
    \/ \E i \in DOMAIN streams, raw \in AdapterLines :
          /\ TotalRead(streams) < MaxAdapterLines
          /\ ReadLine(i, raw)
    \/ \E i \in DOMAIN streams : ReadEof(i)
    \/ \E i \in DOMAIN streams : ReadError(i)
    \/ \E i \in DOMAIN streams : Abandon(i)

SpecAdapter == InitStream /\ [][NextAdapter]_vars

(***************************************************************************)
(* _parse_event on its own: one call on a stream with some counters and    *)
(* some decoded event.                                                     *)
(***************************************************************************)
Absent == [t |-> "absent"]

\* the object with the fields of r that are not Absent
Present(r) == Obj([k \in {k \in DOMAIN r : r[k] # Absent} |-> r[k]])

ParseEvents ==
    {Present([event |-> e, answer |-> a, message_id |-> m, metadata |-> md]) :
        e \in {Absent, PyNone, Str("agent_message"), Str("message_end"), Str("ping")},
        a \in {Absent, PyNone, Str(""), Str("Hi"), Str("Hello")},
        m \in {Absent, Str("m1")},
        md \in {Absent, PyNone, EmptyObj, Usage(10, 5)}}
    \cup {Arr, Num(1), PyNone}

ParseCounters ==
    {[input_tokens |-> 0, output_tokens |-> 0], [input_tokens |-> 3, output_tokens |-> 4]}

InitParse ==
    /\ opts = Options(PyNone)
    /\ session = NoSession
    /\ sessions = <<>>
    /\ closeCalls = <<>>
    /\ streams = <<>>
    /\ lastChat = [n |-> 0, chat_ctx |-> <<>>, temperature |-> PyNone, raised |-> "",
                   created |-> FALSE, posted |-> FALSE, session_before |-> NoSession]
    /\ parseArgs \in [self : ParseCounters, event : ParseEvents]
    /\ parseRet = PyNone

ParseCall ==
    /\ parseRet = PyNone
    /\ parseRet' = ParseEvent(parseArgs.self, parseArgs.event)
    /\ UNCHANGED <<opts, session, sessions, closeCalls, streams, lastChat, parseArgs>>

NextParse == ParseCall

SpecParse == InitParse /\ [][NextParse]_vars

(***************************************************************************)
(* The wire format as the claims read it: the event a body line carries,   *)
(* and what the lines read so far (hist) say about usage and content.      *)
(***************************************************************************)
\* the JSON object a line carries after "data: ", PyNone when it carries none
EventOf(raw) ==
    IF raw = <<>> \/ DecodeRaises(raw) THEN PyNone
    ELSE LET line == Strip(raw) IN
         IF ~StartsWithData(line) \/ JsonRaises(Tail(line)) THEN PyNone
         ELSE LET v == JsonLoads(Tail(line)) IN IF v.t = "obj" THEN v ELSE PyNone

IsEvent(raw, name) ==
    LET e == EventOf(raw) IN
    /\ e # PyNone
    /\ "event" \in DOMAIN e.o
    /\ e.o["event"] = Str(name)

IsMessageEnd(raw) == IsEvent(raw, "message_end")

\* a message_end event with a metadata object that holds a usage object
CarriesUsage(raw) ==
    LET e == EventOf(raw) IN
    /\ IsMessageEnd(raw)
    /\ "metadata" \in DOMAIN e.o
    /\ e.o["metadata"].t = "obj"
    /\ "usage" \in DOMAIN e.o["metadata"].o
    /\ e.o["metadata"].o["usage"].t = "obj"

\* <<prompt tokens, completion tokens>> of a message_end event, zero for what
\* the event does not give
TokensOf(raw) ==
    IF ~CarriesUsage(raw) THEN <<0, 0>>
    ELSE LET u == EventOf(raw).o["metadata"].o["usage"].o IN
         <<IF "prompt_tokens" \in DOMAIN u THEN u["prompt_tokens"].n ELSE 0,
           IF "completion_tokens" \in DOMAIN u THEN u["completion_tokens"].n ELSE 0>>

\* the place in h of the last line that P holds of, 0 when there is none
LastIndex(h, P(_)) ==
    LET S == {k \in DOMAIN h : P(h[k])} IN
    IF S = {} THEN 0 ELSE CHOOSE k \in S : \A j \in S : j <= k

\* the tokens of the last line of h that P holds of, zero when there is none
LastTokens(h, P(_)) ==
    LET k == LastIndex(h, P) IN IF k = 0 THEN <<0, 0>> ELSE TokensOf(h[k])

IsFinal(chunk) == chunk.usage # PyNone
IsContent(chunk) == chunk.choices # <<>>
FinalChunksOf(chan) == {k \in DOMAIN chan : IsFinal(chan[k])}

\* the line source was exhausted without a read error
EndedNormally(st) ==
    /\ st.dify_stream # PyNone
    /\ st.dify_stream.status = 200
    /\ st.body = "eof"

\* the usage of the one final chunk of chan is that of the tokens t
FinalUsageIs(chan, t) ==
    /\ Cardinality(FinalChunksOf(chan)) = 1
    /\ \A k \in FinalChunksOf(chan) :
           /\ chan[k].usage.prompt_tokens = t[1]
           /\ chan[k].usage.completion_tokens = t[2]
           /\ chan[k].usage.total_tokens = t[1] + t[2]

(***************************************************************************)
(* The claims.                                                             *)
(***************************************************************************)
\* C1 as stated: a stream that ends normally has emitted exactly one final
\* chunk, whose prompt and completion tokens are those of the last message_end
\* event read (zero when none was read) and whose total is their sum.
C1_FinalUsageOfLastMessageEnd ==
    \A i \in DOMAIN streams :
        EndedNormally(streams[i]) =>
            FinalUsageIs(streams[i].chan, LastTokens(streams[i].hist, IsMessageEnd))

\* C1 as amended: a stream that ends normally has emitted exactly one final
\* chunk, whose prompt and completion tokens are those of the last message_end
\* event read that carried usage metadata (zero when none was read) and whose
\* total is their sum, whatever content chunks came before it.
C1_FinalUsageOfLastUsageEvent ==
    \A i \in DOMAIN streams :
        EndedNormally(streams[i]) =>
            FinalUsageIs(streams[i].chan, LastTokens(streams[i].hist, CarriesUsage))

\* C1's case: a completed stream with a content chunk, whose last message_end
\* event carried no usage metadata and followed one that did.
C1_Witness ==
    \E i \in DOMAIN streams :
        /\ streams[i].pc = "COMPLETED"
        /\ streams[i].hist = <<HiLine, End10Line, EndBareLine>>
        /\ Len(streams[i].chan) = 2

\* C6: the usage counters of a stream are always those of the most recent
\* message_end event with usage metadata it has read, never a sum; after
\* usage events (10,5) then (20,8) the final chunk reports 20, 8 and 28.
C6_LastWriteWins ==
    \A i \in DOMAIN streams :
        LET st == streams[i] IN
        /\ <<st.input_tokens, st.output_tokens>> = LastTokens(st.hist, CarriesUsage)
        /\ (st.pc = "COMPLETED" /\ st.hist = <<End10Line, End20Line>>) =>
               st.chan[Len(st.chan)].usage = CompletionUsage(8, 20, 28)

\* C6's case: usage events (10,5) then (20,8), and the stream completed.
C6_Witness ==
    \E i \in DOMAIN streams :
        /\ streams[i].pc = "COMPLETED"
        /\ streams[i].hist = <<End10Line, End20Line>>

\* C2 as stated: a stream whose response had a status other than 200 fails
\* with a StatusError that carries the status code and the body text, and
\* that StatusError is what the caller of the stream gets.
C2_StatusErrorReachesCaller ==
    \A i \in DOMAIN streams :
        LET st == streams[i] IN
        (/\ st.pc = "FAILED"
         /\ st.dify_stream # PyNone
         /\ st.dify_stream.status # 200
         /\ st.dify_stream.text # PyNone)
        => /\ st.raised.type = "APIStatusError"
           /\ st.raised.status_code = st.dify_stream.status
           /\ st.raised.body = st.dify_stream.text

\* C3: the failure _run raises is marked retryable exactly when no chunk was
\* delivered on the channel before it, and the flag, once false, stays false.
C3_RetryableIffNothingDelivered ==
    /\ [](\A i \in DOMAIN streams :
              streams[i].pc = "FAILED" =>
                  (streams[i].raised.retryable <=> streams[i].chan = <<>>))
    /\ [][\A i \in DOMAIN streams :
              ~streams[i].retryable => ~streams'[i].retryable]_vars

\* C3's case: a failure after a content chunk and a later line without one.
C3_Witness ==
    \E i \in DOMAIN streams :
        /\ streams[i].pc = "FAILED"
        /\ streams[i].hist = <<HiLine, End10Line>>
        /\ ~streams[i].raised.retryable

\* a line the loop skips: empty, without the prefix, not JSON, or one whose
\* processing raises
BadLine(raw) ==
    \/ raw = <<>>
    \/ DecodeRaises(raw)
    \/ ~StartsWithData(Strip(raw))
    \/ JsonRaises(Tail(Strip(raw)))
    \/ ParseEvent([input_tokens |-> 0, output_tokens |-> 0],
                  JsonLoads(Tail(Strip(raw)))).raised # ""

GoodLine(raw) == ~BadLine(raw)

\* what a stream has done with its lines: the content chunks sent and the
\* counters
EffectOf(st) ==
    [chan |-> SelectSeq(st.chan, IsContent), input_tokens |-> st.input_tokens,
     output_tokens |-> st.output_tokens]

\* the effect of the lines h on a stream that has read none
RECURSIVE Replay(_)
Replay(h) ==
    IF h = <<>>
    THEN [chan |-> <<>>, input_tokens |-> 0, output_tokens |-> 0, retryable |-> TRUE]
    ELSE LET before == Replay(SubSeq(h, 1, Len(h) - 1))
             r == ProcessLine(before, h[Len(h)])
         IN [chan |-> IF r.chunk # PyNone THEN Append(before.chan, r.chunk)
                      ELSE before.chan,
             input_tokens |-> r.input_tokens,
             output_tokens |-> r.output_tokens,
             retryable |-> r.retryable]

\* C4: a bad line is skipped.  No line makes the stream fail, what the stream
\* has sent and counted is at any time what the same lines without the bad
\* ones give, and a body read to its end completes the stream.
C4_BadLinesAreSkipped ==
    \A i \in DOMAIN streams :
        LET st == streams[i]
            good == Replay(SelectSeq(st.hist, GoodLine))
        IN
        /\ st.pc = "FAILED" =>
               st.raised.cause.type \in {"ClientError", "RuntimeError", "APIStatusError"}
        /\ EffectOf(st) = [chan |-> good.chan, input_tokens |-> good.input_tokens,
                           output_tokens |-> good.output_tokens]
        /\ EndedNormally(st) => st.pc = "COMPLETED"

\* C4's case: a line that is not JSON and one whose processing raises, with
\* well-formed events after them, in a completed stream.
C4_Witness ==
    \E i \in DOMAIN streams :
        /\ streams[i].pc = "COMPLETED"
        /\ streams[i].hist = <<BadJsonLine, EndNullLine, HiLine>>
        /\ Len(streams[i].chan) = 2

\* the request id of the last content chunk of chan, "" when there is none
LastRequestId(chan) ==
    LET S == {k \in DOMAIN chan : IsContent(chan[k])} IN
    IF S = {} THEN Str("") ELSE chan[CHOOSE k \in S : \A j \in S : j <= k].request_id

\* C7 as stated: the final chunk of a completed stream carries the message_id
\* of the most recent content chunk of the stream, and "" only when there was
\* none.
C7_FinalChunkCarriesLastRequestId ==
    \A i \in DOMAIN streams :
        LET st == streams[i] IN
        st.pc = "COMPLETED" =>
            st.chan[Len(st.chan)].request_id =
                LastRequestId(SubSeq(st.chan, 1, Len(st.chan) - 1))

\* the content chunks the agent_message events of the lines h give, in the
\* order of the lines
RECURSIVE ExpectedContent(_)
ExpectedContent(h) ==
    IF h = <<>> THEN <<>>
    ELSE LET e == EventOf(Head(h))
             rest == ExpectedContent(Tail(h))
         IN IF /\ IsEvent(Head(h), "agent_message")
               /\ "answer" \in DOMAIN e.o
               /\ e.o["answer"] \notin {Str(""), PyNone}
            THEN <<[request_id |-> IF "message_id" \in DOMAIN e.o
                                   THEN e.o["message_id"] ELSE Str(""),
                    choices |-> <<[delta |-> [content |-> e.o["answer"],
                                              role |-> "assistant"]]>>,
                    usage |-> PyNone]>> \o rest
            ELSE rest

IsPrefix(a, b) == Len(a) <= Len(b) /\ SubSeq(b, 1, Len(a)) = a

\* C9: the chunks on the channel are the content chunks of the agent_message
\* events read, in the order of the events, followed by the final usage chunk
\* when the stream completed and by nothing when it did not; the channel only
\* grows at its end, and not at all once the stream completed.
C9_ChunksInOrderFinalLast ==
    /\ [](\A i \in DOMAIN streams :
              LET st == streams[i]
                  content == ExpectedContent(st.hist)
              IN IF st.pc = "COMPLETED"
                 THEN /\ Len(st.chan) = Len(content) + 1
                      /\ SubSeq(st.chan, 1, Len(content)) = content
                      /\ IsFinal(st.chan[Len(st.chan)])
                      /\ ~IsContent(st.chan[Len(st.chan)])
                 ELSE st.chan = content)
    /\ [][\A i \in DOMAIN streams :
              /\ IsPrefix(streams[i].chan, streams'[i].chan)
              /\ streams[i].pc = "COMPLETED" => streams'[i].chan = streams[i].chan]_vars

\* C9's case: two content chunks in the order of their events, then the final
\* chunk.
C9_Witness ==
    \E i \in DOMAIN streams :
        /\ streams[i].pc = "COMPLETED"
        /\ streams[i].hist = <<HelloLine, HiLine>>
        /\ Len(streams[i].chan) = 3
        /\ streams[i].chan[1].request_id = Str("m2")

\* the event is an agent_message with an answer that is not empty
HasAnswer(event) ==
    /\ event.t = "obj"
    /\ "event" \in DOMAIN event.o
    /\ event.o["event"] = Str("agent_message")
    /\ "answer" \in DOMAIN event.o
    /\ event.o["answer"].t = "str"
    /\ event.o["answer"].s # ""

\* C5: _parse_event returns a chunk exactly for an agent_message event with an
\* answer that is not empty, and that chunk has one choice, of role assistant,
\* with the answer as its content, the message_id of the event as its request
\* id ("" when the event has none) and no usage; every other event gives no
\* chunk.
C5_ChunkIffAgentMessageWithAnswer ==
    parseRet # PyNone =>
        LET event == parseArgs.event
            chunk == parseRet.chunk
        IN /\ chunk # PyNone <=> HasAnswer(event)
           /\ HasAnswer(event) =>
                  /\ Len(chunk.choices) = 1
                  /\ chunk.choices[1].delta.role = "assistant"
                  /\ chunk.choices[1].delta.content = event.o["answer"]
                  /\ chunk.request_id = IF "message_id" \in DOMAIN event.o
                                        THEN event.o["message_id"] ELSE Str("")
                  /\ chunk.usage = PyNone

\* C5's case: a call on an agent_message event with the answer "Hello" and a
\* message_id, which returned a chunk.
C5_Witness ==
    /\ parseRet # PyNone
    /\ HasAnswer(parseArgs.event)
    /\ parseArgs.event.o["answer"] = Str("Hello")
    /\ "message_id" \in DOMAIN parseArgs.event.o
    /\ parseRet.chunk # PyNone

NoUserMessage(chat_ctx) == \A k \in DOMAIN chat_ctx : chat_ctx[k].role # "user"

\* C8: a call of chat() with a chat context without a user message raises
\* ValueError and leaves the session, the sessions made and the requests issued
\* as they were before the call.
C8_NoUserMessageFailsFast ==
    [][(lastChat'.n # lastChat.n /\ NoUserMessage(lastChat'.chat_ctx)) =>
           /\ lastChat'.raised = "ValueError"
           /\ session' = session
           /\ sessions' = sessions
           /\ streams' = streams]_vars

\* C8's case: chat() was called with messages none of which is a user's, on an
\* adapter without a session, and raised.
C8_Witness ==
    /\ lastChat.n > 0
    /\ lastChat.chat_ctx # <<>>
    /\ NoUserMessage(lastChat.chat_ctx)
    /\ lastChat.session_before = NoSession
    /\ lastChat.raised = "ValueError"

\* C10 as stated: no session exists before the first chat() that succeeds, at
\* most one session the adapter made is open at any time, and chat() makes a
\* session only when none is cached.
C10_AtMostOneOpenSession ==
    /\ lastChat.n = 0 => sessions = <<>>
    /\ Cardinality({k \in DOMAIN sessions : sessions[k].state = "open"}) <= 1
    /\ lastChat.created => lastChat.session_before = NoSession

\* a call of close() begins in this step
CloseBegins == Len(closeCalls') = Len(closeCalls) + 1

\* the call of close() numbered i returns in this step
CloseReturns(i) ==
    /\ i \in DOMAIN closeCalls'
    /\ closeCalls'[i].pc = "done"
    /\ i \in DOMAIN closeCalls => closeCalls[i].pc = "await"

\* C11: a call of close() on an adapter without a session returns at once
\* and changes nothing of the adapter; and a call of close() that returns
\* leaves the adapter without a session, so that a second call right after it
\* is such a call and leaves the adapter as the first one did.
C11_CloseIdempotent ==
    [][/\ (CloseBegins /\ session = NoSession) =>
              /\ CloseReturns(Len(closeCalls'))
              /\ UNCHANGED <<opts, session, sessions, streams>>
       /\ \A i \in DOMAIN closeCalls' : CloseReturns(i) => session' = NoSession]_vars

\* C11's case: close() on an adapter that never had a session, and later,
\* after a chat(), close() right after a close() that closed the session.
C11_Witness ==
    /\ Len(closeCalls) = 2
    /\ closeCalls[1].session # NoSession
    /\ closeCalls[1].pc = "done"
    /\ closeCalls[2].session = NoSession
    /\ closeCalls[2].pc = "done"
    /\ Len(sessions) = 1
    /\ sessions[1] = [state |-> "closed", closes |-> 1]
    /\ session = NoSession

\* the sessions that were made and not closed
OpenSessions(all_sessions) ==
    {k \in DOMAIN all_sessions : all_sessions[k].state = "open"}

\* C12 as stated: close() is called on no session more than once, and when a
\* call of close() returns no session that was made is left open.
C12_EverySessionReleasedOnce ==
    [][/\ \A k \in DOMAIN sessions' : sessions'[k].closes <= 1
       /\ \A i \in DOMAIN closeCalls' :
              CloseReturns(i) => OpenSessions(sessions') = {}]_vars

\* _run has returned or raised
Exited(st) == st.pc \in {"COMPLETED", "FAILED", "CANCELLED"}

\* C13: a stream whose _run has exited, by returning, by raising or by being
\* cancelled, and that had acquired its response, has released it; and a
\* stream that was abandoned reads no further line of the body.
C13_ResponseReleasedOnEveryExit ==
    /\ [](\A i \in DOMAIN streams :
              (Exited(streams[i]) /\ streams[i].dify_stream # PyNone) =>
                  streams[i].dify_stream.released)
    /\ [][\A i \in DOMAIN streams :
              streams[i].pc = "CANCELLED" =>
                  /\ streams'[i].pc = "CANCELLED"
                  /\ streams'[i].hist = streams[i].hist
                  /\ streams'[i].chan = streams[i].chan]_vars

\* C13's case: the consumer abandoned the stream after a content chunk, in
\* the middle of the body of a 200 response.
C13_Witness ==
    \E i \in DOMAIN streams :
        /\ streams[i].pc = "CANCELLED"
        /\ streams[i].dify_stream # PyNone
        /\ streams[i].dify_stream.status = 200
        /\ streams[i].body = "open"
        /\ streams[i].hist = <<HiLine>>
        /\ Len(streams[i].chan) = 1

\* the temperature the claim expects in the payload, Absent for no such key
ExpectedTemperature(default, override) ==
    IF override # PyNone THEN override
    ELSE IF default # PyNone THEN default
    ELSE Absent

\* the value of the payload's key "temperature", Absent when it has none
TemperatureIn(json) ==
    IF "temperature" \in DOMAIN json THEN json["temperature"] ELSE Absent

\* C14: the payload of the request a call of chat() posts has the override as
\* its temperature when one was given, else the instance default when one
\* was configured, and else no key "temperature" at all.
C14_EffectiveTemperature ==
    lastChat.posted =>
        TemperatureIn(streams[Len(streams)].awaitable_dify_stream.json)
            = ExpectedTemperature(opts.temperature, lastChat.temperature)

\* C14's case: chat() with an override of 0 on an adapter whose default is 5.
C14_Witness ==
    /\ lastChat.posted
    /\ lastChat.temperature = Num(0)
    /\ opts.temperature = Num(5)
    /\ TemperatureIn(streams[Len(streams)].awaitable_dify_stream.json) = Num(0)

\* _run is suspended at one of its awaits
Running(st) == st.pc \in {"AWAITING_RESPONSE", "READING_ERROR_BODY", "STREAMING"}

\* C15: what a stream raises to its caller is a connection error and nothing
\* else, and the stream is FAILED exactly when it has raised one; a step in
\* which the request fails, the status is not 200, or reading the body fails
\* takes the stream to FAILED.  (A stream leaves its awaits only by going on,
\* by completing, by being cancelled by its consumer, or by failing.)
C15_EveryFailureIsConnectionError ==
    /\ [](\A i \in DOMAIN streams :
              /\ streams[i].pc = "FAILED" <=> streams[i].raised # PyNone
              /\ streams[i].raised # PyNone =>
                     /\ streams[i].raised.type = "APIConnectionError"
                     /\ streams[i].raised.cause.type
                            \in {"ClientError", "APIStatusError", "RuntimeError"})
    /\ [][\A i \in DOMAIN streams :
              /\ (streams'[i].body = "error" /\ streams[i].body # "error") =>
                     /\ streams'[i].pc = "FAILED"
                     /\ streams'[i].raised.cause = ClientError
              /\ (streams[i].pc = "READING_ERROR_BODY" /\ streams'[i] # streams[i]) =>
                     streams'[i].pc \in {"FAILED", "CANCELLED"}]_vars

\* C15's case: the connection broke in the middle of the body, after a
\* content chunk had been sent.
C15_Witness ==
    \E i \in DOMAIN streams :
        /\ streams[i].pc = "FAILED"
        /\ streams[i].body = "error"
        /\ streams[i].hist = <<HiLine>>
        /\ streams[i].attempts = 1
        /\ streams[i].raised = APIConnectionError(FALSE, ClientError)

\* the state of the claim a stream is in during the first invocation of _run:
\* the await of response.text() on a response that is not 200 is part of
\* awaiting the response
StateOf(st) == IF st.pc = "READING_ERROR_BODY" THEN "AWAITING_RESPONSE" ELSE st.pc

\* the steps of the state machine of the claim, and the one the consumer's
\* cancellation adds
InOrder(from, to) ==
    \/ from = to
    \/ from = "NOT_STARTED" /\ to = "AWAITING_RESPONSE"
    \/ from = "AWAITING_RESPONSE" /\ to \in {"STREAMING", "FAILED", "CANCELLED"}
    \/ from = "STREAMING" /\ to \in {"COMPLETED", "FAILED", "CANCELLED"}

\* what reading lines, updating the counters and sending chunks change
Effects(st) == <<st.hist, st.input_tokens, st.output_tokens, st.chan>>

\* C16: in its first invocation of _run a stream goes from NOT_STARTED to
\* AWAITING_RESPONSE to STREAMING and then to COMPLETED or FAILED, in that
\* order; a stream that is COMPLETED stays so; and from the moment a stream
\* is FAILED, whatever later invocations of _run do, no line is read, no
\* counter is updated and no chunk is sent, and it does not complete.
C16_StatesInOrderNoReentry ==
    [][\A i \in DOMAIN streams :
          /\ streams'[i].attempts <= 1 =>
                 InOrder(StateOf(streams[i]), StateOf(streams'[i]))
          /\ streams[i].pc = "COMPLETED" => streams'[i] = streams[i]
          /\ (streams[i].pc = "FAILED" \/ streams[i].attempts > 1) =>
                 /\ Effects(streams'[i]) = Effects(streams[i])
                 /\ streams'[i].pc # "COMPLETED"]_vars

\* C16's case: a stream that failed with a broken connection after a
\* message_end event, was run again, and failed again.
C16_Witness ==
    \E i \in DOMAIN streams :
        /\ streams[i].pc = "FAILED"
        /\ streams[i].attempts = 2
        /\ streams[i].hist = <<End10Line>>
        /\ streams[i].dify_stream # PyNone
        /\ streams[i].dify_stream.status = 200

Counters(st) == <<st.input_tokens, st.output_tokens>>

\* C17: the counters of a stream change in a step only when that stream
\* itself reads, in that step, a message_end event that carries usage
\* metadata, and then to the tokens of that event; whatever else the stream
\* reads, and whatever another stream of the adapter reads, leaves them.
C17_CountersChangeOnlyOnOwnUsage ==
    [][\A i \in DOMAIN streams :
          Counters(streams'[i]) # Counters(streams[i]) =>
              /\ Len(streams'[i].hist) = Len(streams[i].hist) + 1
              /\ LET raw == streams'[i].hist[Len(streams'[i].hist)] IN
                 /\ CarriesUsage(raw)
                 /\ Counters(streams'[i]) = TokensOf(raw)]_vars

\* C17's case: two streams of one adapter, the first one with the counters of
\* the message_end event it read, the second one, which read an agent_message
\* event, with its counters as they were made.
C17_Witness ==
    /\ Len(streams) = 2
    /\ streams[1].hist = <<End10Line>>
    /\ streams[2].hist = <<HiLine>>
    /\ Counters(streams[1]) = <<10, 5>>
    /\ Counters(streams[2]) = <<0, 0>>

\* a chunk with one assistant delta of text that is not empty, and no usage
ContentShape(chunk) ==
    /\ Len(chunk.choices) = 1
    /\ chunk.choices[1].delta.role = "assistant"
    /\ chunk.choices[1].delta.content.t = "str"
    /\ chunk.choices[1].delta.content.s # ""
    /\ chunk.usage = PyNone

\* a chunk with a usage summary and no delta
FinalShape(chunk) ==
    /\ chunk.choices = <<>>
    /\ chunk.usage # PyNone
    /\ DOMAIN chunk.usage = {"completion_tokens", "prompt_tokens", "total_tokens"}

\* C18: every chunk on the channel of a stream is a content chunk or a final
\* chunk, and not both.
C18_ChunkShapes ==
    \A i \in DOMAIN streams : \A k \in DOMAIN streams[i].chan :
        LET chunk == streams[i].chan[k] IN
        /\ ContentShape(chunk) \/ FinalShape(chunk)
        /\ ~(ContentShape(chunk) /\ FinalShape(chunk))

\* C18's case: a completed stream with a content chunk and the final chunk
\* on its channel, after a line that gave no chunk.
C18_Witness ==
    \E i \in DOMAIN streams :
        /\ streams[i].pc = "COMPLETED"
        /\ streams[i].hist = <<HeartbeatLine, HelloLine>>
        /\ Len(streams[i].chan) = 2
        /\ ContentShape(streams[i].chan[1])
        /\ FinalShape(streams[i].chan[2])

\* C19 as stated: every request chat() posted was posted on a session that
\* was open, neither closed nor being closed, at the time of the call.
C19_NoPostOnClosingSession ==
    \A i \in DOMAIN streams :
        streams[i].awaitable_dify_stream.session_state = "open"

\* _run is invoked again on stream i in this step
Retried(i) ==
    /\ streams[i].attempts >= 1
    /\ streams'[i].attempts = streams[i].attempts + 1

\* C20 as stated: an invocation of _run after a retryable failure starts with
\* both counters at zero, and does not go on with a response that an earlier
\* invocation released.
C20_RetryStartsAfresh ==
    [][\A i \in DOMAIN streams :
          Retried(i) =>
              /\ Counters(streams'[i]) = <<0, 0>>
              /\ streams'[i].dify_stream # PyNone =>
                     ~(Running(streams'[i]) /\ streams'[i].dify_stream.released)]_vars

====
